---------------------------- MODULE Spec2Model ----------------------------
(***************************************************************************)
(* A model of simple_fdw (simple_fdw/src/simple_fdw.c): the option         *)
(* validator, the option lookup done at scan start, and the scan callbacks *)
(* (begin, iterate, rescan, end) driving one SQLite connection and one     *)
(* prepared statement.                                                     *)
(*                                                                         *)
(* Conventions.  A C string is a TLA+ string.  A char* is NULL (the empty  *)
(* tuple) or the one-element tuple <<s>> holding the string it points to.  *)
(* ereport(ERROR, ...) does not return to its caller: the handler stops at *)
(* that statement and the statements written after it are not executed.    *)
(***************************************************************************)
EXTENDS Integers, Sequences, FiniteSets, TLC

(***************************************************************************)
(* Bounds of the model.                                                    *)
(***************************************************************************)
\* longest options list handed to the validator
MaxOpts == 3
\* most options the server and the table of one lookup hold together
MaxMerged == 3
\* most rows of the scanned table
MaxRows == 2
\* most columns of the scanned table, and of the foreign table's row type
MaxCols == 2
\* most callbacks the executor issues after begin
MaxCalls == 5
\* most failures the engine reports from sqlite3_step during one scan
MaxStepFailures == 1
\* longest table name a query is built for
MaxNameLen == 3
\* largest row estimate the planner hands over, and largest table Oid
MaxPlannerRows == 5
MaxTableOid == 4

NULL == <<>>

Ptr(s) == <<s>>

Deref(p) == p[1]

(***************************************************************************)
(* Catalogs the validator can be called for.  Only the first two occur in  *)
(* valid_options; the third stands for every other catalog (the wrapper    *)
(* itself, a user mapping, a column).                                      *)
(***************************************************************************)
ForeignServerRelationId == "pg_foreign_server"

ForeignTableRelationId == "pg_foreign_table"

ForeignDataWrapperRelationId == "pg_foreign_data_wrapper"

Catalogs ==
    {ForeignServerRelationId, ForeignTableRelationId,
     ForeignDataWrapperRelationId}

\* The array stops at its sentinel { NULL, InvalidOid }: the sequence's end.
valid_options ==
    << [optname |-> "database", optcontext |-> ForeignServerRelationId],
       [optname |-> "table", optcontext |-> ForeignTableRelationId] >>

(***************************************************************************)
(* Option lists: DefElem nodes, a name and a string argument.              *)
(***************************************************************************)
OptNames == {"database", "table", "foo"}

OptValues == {"a", "b"}

DefElems == [defname : OptNames, arg : OptValues]

SeqsUpTo(S, n) == UNION {[1..k -> S] : k \in 0..n}

defGetString(def) == Ptr(def.arg)

(***************************************************************************)
(* The outcome of a call: it returned, or it left through ereport(ERROR).  *)
(***************************************************************************)
NoError == [elevel |-> "OK", sqlerrcode |-> "", message |-> "", hint |-> ""]

ErrorData(code, msg, hnt) ==
    [elevel |-> "ERROR", sqlerrcode |-> code, message |-> msg, hint |-> hnt]

(***************************************************************************)
(* myIsValidOption                                                         *)
(***************************************************************************)
myIsValidOption_AnyContext(option, context) ==
    \E i \in 1..Len(valid_options) : valid_options[i].optname = option

myIsValidOption(option, context) ==
    \E i \in 1..Len(valid_options) :
        /\ context = valid_options[i].optcontext
        /\ valid_options[i].optname = option

(***************************************************************************)
(* simple_fdw_validator                                                    *)
(***************************************************************************)
RECURSIVE HintBuf(_, _, _)
\* The loop over valid_options that fills buf, from entry i on.
HintBuf(catalog, i, buf) ==
    IF i > Len(valid_options)
    THEN buf
    ELSE IF catalog = valid_options[i].optcontext
         THEN HintBuf(catalog, i + 1,
                      buf \o (IF Len(buf) > 0 THEN ", " ELSE "")
                          \o valid_options[i].optname)
         ELSE HintBuf(catalog, i + 1, buf)

InvalidOptionError(def, catalog) ==
    LET buf == HintBuf(catalog, 1, "")
    IN  ErrorData("ERRCODE_FDW_INVALID_OPTION_NAME",
                  "invalid option \"" \o def.defname \o "\"",
                  "Valid options in this context are: "
                      \o (IF Len(buf) > 0 THEN buf ELSE "<none>"))

RedundantError(def) ==
    ErrorData("ERRCODE_SYNTAX_ERROR",
              "redundant options: " \o def.defname
                  \o " (" \o Deref(defGetString(def)) \o ")",
              "")

AlreadyGiven_Never(seen) == FALSE

\* if (simple_database) / if (simple_table): the option was given before
AlreadyGiven(seen) == seen # NULL

RECURSIVE ValidatorLoop(_, _, _, _, _)
\* foreach(cell, options_list), from cell i on
ValidatorLoop(options_list, catalog, i, simple_database, simple_table) ==
    IF i > Len(options_list)
    THEN NoError
    ELSE LET def == options_list[i]
         IN  IF ~myIsValidOption(def.defname, catalog)
             THEN InvalidOptionError(def, catalog)
             ELSE IF def.defname = "database"
             THEN IF AlreadyGiven(simple_database)
                  THEN RedundantError(def)
                  ELSE ValidatorLoop(options_list, catalog, i + 1,
                                     defGetString(def), simple_table)
             ELSE IF def.defname = "table"
             THEN IF AlreadyGiven(simple_table)
                  THEN RedundantError(def)
                  ELSE ValidatorLoop(options_list, catalog, i + 1,
                                     simple_database, defGetString(def))
             ELSE ValidatorLoop(options_list, catalog, i + 1,
                                simple_database, simple_table)

simple_fdw_validator(options_list, catalog) ==
    ValidatorLoop(options_list, catalog, 1, NULL, NULL)

(***************************************************************************)
(* simpleGetOptions                                                        *)
(***************************************************************************)
list_concat(l1, l2) == l1 \o l2

MergedOptions_ServerFirst(table_options, server_options) ==
    list_concat(list_concat(<<>>, server_options), table_options)

\* options = NIL; then the table's options, then the server's
MergedOptions(table_options, server_options) ==
    list_concat(list_concat(<<>>, table_options), server_options)

RECURSIVE OptionsLoop(_, _, _, _)
\* foreach(lc, options), from cell i on: each match overwrites the out value
OptionsLoop(options, i, database, table) ==
    IF i > Len(options)
    THEN [database |-> database, table |-> table]
    ELSE LET def == options[i]
             d == IF def.defname = "database"
                  THEN defGetString(def) ELSE database
             t == IF def.defname = "table"
                  THEN defGetString(def) ELSE table
         IN  OptionsLoop(options, i + 1, d, t)

MissingOptions_Either(database, table) == database = NULL \/ table = NULL

\* if (!*database && !*table)
MissingOptions(database, table) == database = NULL /\ table = NULL

\* The caller passes *database = *table = NULL.
simpleGetOptions(table_options, server_options) ==
    LET got == OptionsLoop(MergedOptions(table_options, server_options),
                           1, NULL, NULL)
    IN  IF MissingOptions(got.database, got.table)
        THEN [err |-> ErrorData("ERRCODE_SYNTAX_ERROR",
                                "a database and a table must be specified",
                                ""),
              database |-> got.database, table |-> got.table]
        ELSE [err |-> NoError,
              database |-> got.database, table |-> got.table]

(***************************************************************************)
(* State.                                                                  *)
(*   v_options, v_catalog, v_result   one call of simple_fdw_validator     *)
(*   f_table_options, f_server_options   the catalog entries of the        *)
(*                                    foreign table and of its server      *)
(*   r_result                         one call of simpleGetOptions         *)
(*   autoreset, nrows, ncols          the engine: its build, and the table *)
(*   natts                            attributes of the relation's rd_att  *)
(*   pc                               where the executor is with the scan  *)
(*   festate                          node->fdw_state                      *)
(*   db, stmt                         the engine's connection and          *)
(*                                    statement objects                    *)
(*   slot                             node->ss.ss_ScanTupleSlot            *)
(*   err                              how the last callback ended          *)
(*   hist                             the callbacks issued after begin     *)
(*   trace                            the engine and allocator calls made  *)
(*   failures                         step failures the engine reported    *)
(*   baserel, foreigntableid          the planner's RelOptInfo and the     *)
(*                                    table Oid it plans for               *)
(***************************************************************************)
VARIABLES v_options, v_catalog, v_result,
          f_table_options, f_server_options, r_result,
          autoreset, nrows, ncols, natts,
          pc, festate, db, stmt, slot, err, hist, trace, failures,
          baserel, foreigntableid

plannerVars == <<baserel, foreigntableid>>

validatorVars == <<v_options, v_catalog, v_result>>

catalogVars == <<f_table_options, f_server_options>>

envVars == <<autoreset, nrows, ncols, natts>>

scanVars == <<pc, festate, db, stmt, slot, err, hist, trace, failures>>

vars ==
    <<validatorVars, catalogVars, r_result, envVars, scanVars, plannerVars>>

(***************************************************************************)
(* The planner callbacks.  baserel is the planner's RelOptInfo: its row    *)
(* estimate, fdw_private, and the paths added to it.                       *)
(***************************************************************************)
EstimatedRows_KeepDefault(rel) == rel.rows

\* baserel->rows = 0
EstimatedRows(rel) == 0

simpleGetForeignRelSize ==
    /\ baserel.fdw_private = NULL
    /\ baserel' = [baserel EXCEPT !.rows = EstimatedRows(baserel),
                                  !.fdw_private = Ptr("SimpleFdwPlanState")]
    /\ UNCHANGED <<validatorVars, catalogVars, r_result, envVars, scanVars>>
    /\ UNCHANGED foreigntableid

\* startup_cost = 0; total_cost = startup_cost + baserel->rows
PathCosts(rel) ==
    LET startup_cost == 0
    IN  [startup_cost |-> startup_cost,
         total_cost |-> startup_cost + rel.rows]

\* create_foreignscan_path(root, baserel, baserel->rows, startup_cost,
\*                         total_cost, NIL, NULL, NIL)
create_foreignscan_path(rel, rows, startup_cost, total_cost) ==
    [rows |-> rows, startup_cost |-> startup_cost,
     total_cost |-> total_cost, pathkeys |-> <<>>, fdw_private |-> <<>>]

simpleGetForeignPaths ==
    /\ baserel.fdw_private # NULL
    /\ baserel.pathlist = <<>>
    /\ LET c == PathCosts(baserel)
       IN  baserel' =
             [baserel EXCEPT !.pathlist =
                Append(@, create_foreignscan_path(baserel, baserel.rows,
                                                  c.startup_cost,
                                                  c.total_cost))]
    /\ UNCHANGED <<validatorVars, catalogVars, r_result, envVars, scanVars>>
    /\ UNCHANGED foreigntableid

(***************************************************************************)
(* The embedded engine, as far as the callbacks see it.                    *)
(*                                                                         *)
(* db is the state of the one sqlite3 object: "none" before sqlite3_open,  *)
(* "open", "openfailed" (sqlite3_open failed: the object is allocated and  *)
(* waits for sqlite3_close), "closed".                                     *)
(*                                                                         *)
(* stmt is the one sqlite3_stmt: state "none", "ready" (prepared or        *)
(* reset), "run" (on a row), "halt" (sqlite3_step returned something other *)
(* than SQLITE_ROW), "finalized"; pos is the row it is on; rc the code the *)
(* last sqlite3_step returned.                                             *)
(*                                                                         *)
(* A sqlite3_step on a halted statement depends on the build: by default   *)
(* the statement is reset and run again from its first row; built with     *)
(* SQLITE_OMIT_AUTORESET it does so only after SQLITE_BUSY and otherwise   *)
(* returns SQLITE_MISUSE.  autoreset says which build this is.             *)
(***************************************************************************)
NoStmt == [state |-> "none", pos |-> 0, rc |-> "SQLITE_OK"]

ReadyStmt == [state |-> "ready", pos |-> 0, rc |-> "SQLITE_OK"]

StepFailureCodes == {"SQLITE_BUSY", "SQLITE_ERROR"}

\* The text of column c of row r.
Cell(r, c) == "r" \o ToString(r) \o "c" \o ToString(c)

\* What a step of a statement that is not halted can return.
StepRun(s, canFail) ==
    (IF s.pos < nrows
     THEN {[rc |-> "SQLITE_ROW",
            stmt |-> [state |-> "run", pos |-> s.pos + 1,
                      rc |-> "SQLITE_ROW"]]}
     ELSE {[rc |-> "SQLITE_DONE",
            stmt |-> [state |-> "halt", pos |-> s.pos,
                      rc |-> "SQLITE_DONE"]]})
    \cup
    (IF canFail
     THEN {[rc |-> f, stmt |-> [state |-> "halt", pos |-> s.pos, rc |-> f]] :
             f \in StepFailureCodes}
     ELSE {})

sqlite3_step(s, canFail) ==
    IF s.state = "halt"
    THEN IF autoreset \/ s.rc = "SQLITE_BUSY"
         THEN StepRun(ReadyStmt, canFail)
         ELSE {[rc |-> "SQLITE_MISUSE", stmt |-> s]}
    ELSE StepRun(s, canFail)

\* Whether sqlite3_prepare can succeed, can fail: a NULL connection or a
\* NULL statement text is refused with SQLITE_MISUSE.
sqlite3_prepare(conn, query) ==
    IF conn = NULL \/ query = NULL THEN {FALSE} ELSE BOOLEAN

sqlite3_column_count(s) == ncols

sqlite3_column_text(s, x) == Ptr(Cell(s.pos, x))

(***************************************************************************)
(* The scan callbacks.                                                     *)
(***************************************************************************)
EmptySlot == [kind |-> "empty", src |-> 0, values |-> <<>>]

Call(name, k) == [call |-> name, by |-> k]

Done(op, res, row) == [op |-> op, res |-> res, row |-> row]

\* printf's %s of a char*
FmtS(p) == IF p = NULL THEN "(null)" ELSE Deref(p)

strlen(s) == Len(s)

\* snprintf(buf, len, "SELECT * FROM %s", table): at most len - 1 characters
snprintf(len, table) ==
    LET full == "SELECT * FROM " \o table
    IN  IF Len(full) <= len - 1 THEN full ELSE SubSeq(full, 1, len - 1)

BuildQuery_ShortBuffer(svr_table) ==
    LET len == strlen(svr_table) + 14
    IN  snprintf(len, svr_table)

\* len = strlen(svr_table) + 15; query = palloc(len); snprintf(query, len, ...)
BuildQuery(svr_table) ==
    LET len == strlen(svr_table) + 15
    IN  snprintf(len, svr_table)

AfterEreport_Executed(calls) == calls

\* ereport(ERROR, ...) does not return: of the calls the function has
\* written after it, none is made.
AfterEreport(calls) == <<>>

simpleBeginForeignScan ==
    /\ pc = "planned"
    /\ UNCHANGED <<validatorVars, catalogVars, r_result, envVars>>
    /\ UNCHANGED plannerVars
    /\ UNCHANGED <<stmt, slot, hist, failures>>
    /\ LET o == simpleGetOptions(f_table_options, f_server_options)
       IN  IF o.err.elevel = "ERROR"
           THEN /\ pc' = "error"
                /\ err' = o.err
                /\ UNCHANGED <<festate, db, trace>>
           ELSE \E opened \in BOOLEAN :
                  /\ trace' =
                       Append(trace, Call("sqlite3_open", 0))
                         \o (IF opened THEN <<>>
                             ELSE AfterEreport(<<Call("sqlite3_close", 0)>>))
                  /\ IF ~opened
                     THEN \* ereport(ERROR) leaves the function here
                          /\ pc' = "error"
                          /\ db' = IF AfterEreport(<<"sqlite3_close">>) = <<>>
                                   THEN "openfailed" ELSE "closed"
                          /\ err' = ErrorData("ERRCODE_FDW_OUT_OF_MEMORY",
                                 "Can't open sqlite database "
                                    \o FmtS(o.database)
                                    \o ": unable to open database file", "")
                          /\ UNCHANGED festate
                     ELSE IF o.table = NULL
                     THEN \* strlen(NULL)
                          /\ pc' = "crashed"
                          /\ db' = "open"
                          /\ UNCHANGED <<err, festate>>
                     ELSE /\ pc' = "running"
                          /\ db' = "open"
                          /\ err' = NoError
                          /\ festate' =
                               Ptr([conn |-> Ptr("db"), result |-> NULL,
                                    query |-> Ptr(BuildQuery(Deref(o.table)))])

NeedPrepare_Always(fs) == TRUE

\* if (!festate->result)
NeedPrepare(fs) == fs.result = NULL

Garbage == {NULL, Ptr("?")}

\* values[] holds sqlite3_column_count entries; BuildTupleFromCStrings
\* reads one per attribute of the relation, so beyond the array when the
\* relation has more attributes than the row has columns.
TupleOutcomes(s) ==
    {[crash |-> FALSE,
      values |-> [i \in 1..natts |->
                    IF i <= sqlite3_column_count(s)
                    THEN sqlite3_column_text(s, i) ELSE g[i]]] :
        g \in [(sqlite3_column_count(s) + 1)..natts -> Garbage]}
    \cup
    (IF natts > sqlite3_column_count(s)
     THEN {[crash |-> TRUE, values |-> <<>>]}
     ELSE {})

\* ExecClearTuple, sqlite3_step and the filling of the slot
IterateStep(fs, st, tr, k) ==
    \E out \in sqlite3_step(st, failures < MaxStepFailures) :
      /\ failures' = failures + (IF out.rc \in StepFailureCodes THEN 1 ELSE 0)
      /\ stmt' = out.stmt
      /\ festate' = Ptr(fs)
      /\ trace' = Append(tr, Call("sqlite3_step", k))
      /\ db' = db
      /\ IF out.rc = "SQLITE_ROW"
         THEN \E t \in TupleOutcomes(out.stmt) :
                IF t.crash
                THEN /\ pc' = "crashed"
                     /\ slot' = EmptySlot
                     /\ hist' = Append(hist, Done("iterate", "crash", 0))
                     /\ UNCHANGED err
                ELSE /\ pc' = pc
                     /\ slot' = [kind |-> "tuple", src |-> out.stmt.pos,
                                 values |-> t.values]
                     /\ hist' = Append(hist,
                                   Done("iterate", "tuple", out.stmt.pos))
                     /\ err' = NoError
         ELSE /\ pc' = pc
              /\ slot' = EmptySlot
              /\ hist' = Append(hist, Done("iterate", "EndOfData", 0))
              /\ err' = NoError

simpleIterateForeignScan ==
    /\ pc = "running"
    /\ Len(hist) < MaxCalls
    /\ UNCHANGED <<validatorVars, catalogVars, r_result, envVars>>
    /\ UNCHANGED plannerVars
    /\ LET fs == Deref(festate)
           k == Len(hist) + 1
           tp == Append(trace, Call("sqlite3_prepare", k))
       IN  IF NeedPrepare(fs)
           THEN \E ok \in sqlite3_prepare(fs.conn, fs.query) :
                  IF ok
                  THEN IterateStep([fs EXCEPT !.result = Ptr("stmt")],
                                   ReadyStmt, tp, k)
                  ELSE \* ereport(ERROR) leaves the function here
                       /\ pc' = "error"
                       /\ err' = ErrorData(
                                   "ERRCODE_FDW_UNABLE_TO_CREATE_EXECUTION",
                                   "SQL error during prepare: "
                                      \o (IF fs.conn = NULL
                                          THEN "out of memory"
                                          ELSE "no such table"), "")
                       /\ festate' = Ptr([fs EXCEPT !.result = NULL])
                       /\ trace' =
                            tp \o AfterEreport(<<Call("sqlite3_close", k)>>)
                       /\ db' = IF AfterEreport(<<"sqlite3_close">>) = <<>>
                                THEN db ELSE "closed"
                       /\ hist' = Append(hist, Done("iterate", "error", 0))
                       /\ UNCHANGED <<stmt, slot, failures>>
           ELSE IterateStep(fs, stmt, trace, k)

simpleReScanForeignScan ==
    /\ pc = "running"
    /\ Len(hist) < MaxCalls
    /\ hist' = Append(hist, Done("rescan", "ok", 0))
    /\ err' = NoError
    /\ UNCHANGED <<validatorVars, catalogVars, r_result, envVars>>
    /\ UNCHANGED plannerVars
    /\ UNCHANGED <<pc, festate, db, stmt, slot, trace, failures>>

EndState_KeepPointers(fs) == fs

\* festate->result = NULL; festate->conn = NULL; festate->query = 0;
\* each only where the field was set, which leaves every field unset
EndState(fs) ==
    [conn |-> IF fs.conn # NULL THEN NULL ELSE fs.conn,
     result |-> IF fs.result # NULL THEN NULL ELSE fs.result,
     query |-> IF fs.query # NULL THEN NULL ELSE fs.query]

EndCalls_CloseFirst(fs, k) ==
    (IF fs.conn # NULL THEN <<Call("sqlite3_close", k)>> ELSE <<>>)
    \o (IF fs.result # NULL THEN <<Call("sqlite3_finalize", k)>> ELSE <<>>)
    \o (IF fs.query # NULL THEN <<Call("pfree", k)>> ELSE <<>>)

\* The releases simpleEndForeignScan makes, in the order it makes them.
EndCalls(fs, k) ==
    (IF fs.result # NULL THEN <<Call("sqlite3_finalize", k)>> ELSE <<>>)
    \o (IF fs.conn # NULL THEN <<Call("sqlite3_close", k)>> ELSE <<>>)
    \o (IF fs.query # NULL THEN <<Call("pfree", k)>> ELSE <<>>)

simpleEndForeignScan ==
    /\ pc = "running"
    /\ Len(hist) < MaxCalls
    /\ UNCHANGED <<validatorVars, catalogVars, r_result, envVars>>
    /\ UNCHANGED plannerVars
    /\ LET fs == Deref(festate)
           k == Len(hist) + 1
       IN  /\ trace' = trace \o EndCalls(fs, k)
           /\ stmt' = IF fs.result # NULL
                      THEN [stmt EXCEPT !.state = "finalized"] ELSE stmt
           /\ db' = IF fs.conn # NULL THEN "closed" ELSE db
           /\ festate' = Ptr(EndState(fs))
    /\ hist' = Append(hist, Done("end", "ok", 0))
    /\ err' = NoError
    /\ UNCHANGED <<pc, slot, failures>>

(***************************************************************************)
(* Specifications.                                                         *)
(***************************************************************************)
IdleValidator ==
    /\ v_options = <<>>
    /\ v_catalog = ForeignServerRelationId
    /\ v_result = NULL

IdleScan ==
    /\ pc = "planned"
    /\ festate = NULL
    /\ db = "none"
    /\ stmt = NoStmt
    /\ slot = EmptySlot
    /\ err = NoError
    /\ hist = <<>>
    /\ trace = <<>>
    /\ failures = 0

IdleEnv ==
    /\ autoreset = TRUE
    /\ nrows = 0
    /\ ncols = 1
    /\ natts = 1

IdlePlanner ==
    /\ baserel = [rows |-> 0, fdw_private |-> NULL, pathlist |-> <<>>]
    /\ foreigntableid = 1

\* The catalogs a scan is started on: the server names the database or
\* not, the table names the SQLite table or not.
ScanServerOptions == {<<>>, <<[defname |-> "database", arg |-> "a"]>>}

ScanTableOptions == {<<>>, <<[defname |-> "table", arg |-> "b"]>>}

Init ==
    /\ IdleValidator
    /\ r_result = NULL
    /\ f_server_options \in ScanServerOptions
    /\ f_table_options \in ScanTableOptions
    /\ autoreset \in BOOLEAN
    /\ nrows \in 0..MaxRows
    /\ ncols \in 1..MaxCols
    /\ natts \in 1..MaxCols
    /\ IdleScan
    /\ IdlePlanner

Next ==
    \/ simpleBeginForeignScan
    \/ simpleIterateForeignScan
    \/ simpleReScanForeignScan
    \/ simpleEndForeignScan

Spec == Init /\ [][Next]_vars

\* One call of the validator, on any options list and catalog.
ValidatorInit ==
    /\ v_options \in SeqsUpTo(DefElems, MaxOpts)
    /\ v_catalog \in Catalogs
    /\ v_result = NULL
    /\ r_result = NULL
    /\ f_server_options = <<>>
    /\ f_table_options = <<>>
    /\ IdleEnv
    /\ IdleScan
    /\ IdlePlanner

Validate ==
    /\ v_result = NULL
    /\ v_result' = Ptr(simple_fdw_validator(v_options, v_catalog))
    /\ UNCHANGED <<v_options, v_catalog>>
    /\ UNCHANGED <<catalogVars, r_result, envVars, scanVars, plannerVars>>

ValidatorNext == Validate

ValidatorSpec == ValidatorInit /\ [][ValidatorNext]_vars

\* One call of simpleGetOptions.  The catalog holds an option name at most
\* once per object (the host's DDL refuses a second one), but the server
\* and the table may both hold the same name; a value may be empty.
CatalogValues == {"a", "b", ""}

CatalogDefElems == [defname : OptNames, arg : CatalogValues]

NoRepeatedName(l) ==
    \A i, j \in 1..Len(l) : l[i].defname = l[j].defname => i = j

CatalogLists == {l \in SeqsUpTo(CatalogDefElems, MaxMerged) : NoRepeatedName(l)}

ResolveInit ==
    /\ IdleValidator
    /\ r_result = NULL
    /\ f_server_options \in CatalogLists
    /\ f_table_options \in CatalogLists
    /\ Len(f_server_options) + Len(f_table_options) <= MaxMerged
    /\ IdleEnv
    /\ IdleScan
    /\ IdlePlanner

Resolve ==
    /\ r_result = NULL
    /\ r_result' = Ptr(simpleGetOptions(f_table_options, f_server_options))
    /\ UNCHANGED <<validatorVars, catalogVars, envVars, scanVars>>
    /\ UNCHANGED plannerVars

ResolveNext == Resolve

ResolveSpec == ResolveInit /\ [][ResolveNext]_vars

\* The planning of one scan: the planner calls simpleGetForeignRelSize,
\* then simpleGetForeignPaths, on a RelOptInfo holding its own first
\* estimate, for any table and any options of the table and its server.
PlannerInit ==
    /\ IdleValidator
    /\ r_result = NULL
    /\ f_server_options \in ScanServerOptions
    /\ f_table_options \in ScanTableOptions
    /\ IdleEnv
    /\ IdleScan
    /\ \E r \in 0..MaxPlannerRows :
          baserel = [rows |-> r, fdw_private |-> NULL, pathlist |-> <<>>]
    /\ foreigntableid \in 1..MaxTableOid

PlannerNext ==
    \/ simpleGetForeignRelSize
    \/ simpleGetForeignPaths

PlannerSpec == PlannerInit /\ [][PlannerNext]_vars

\* One call of simpleBeginForeignScan for a table option of any text: the
\* characters are a letter and characters a quoting of the name would
\* have to treat.
NameChars == {"a", " ", "\"", ";"}

RECURSIVE Str(_)
\* The string made of the characters of cs.
Str(cs) == IF cs = <<>> THEN "" ELSE cs[1] \o Str(Tail(cs))

TableNames == {Str(cs) : cs \in SeqsUpTo(NameChars, MaxNameLen)}

QueryInit ==
    /\ IdleValidator
    /\ r_result = NULL
    /\ f_server_options = <<[defname |-> "database", arg |-> "a"]>>
    /\ \E name \in TableNames :
          f_table_options = <<[defname |-> "table", arg |-> name]>>
    /\ IdleEnv
    /\ IdleScan
    /\ IdlePlanner

QueryNext == simpleBeginForeignScan

QuerySpec == QueryInit /\ [][QueryNext]_vars

(***************************************************************************)
(* Properties of the scan callbacks, under Spec.                           *)
(***************************************************************************)
IsIterate(h) == h.op = "iterate"

Iterates == SelectSeq(hist, IsIterate)

NeverEnded == \A i \in 1..Len(hist) : hist[i].op # "end"

\* The engine has reported no failure in this scan and every column the
\* relation declares exists in the table.
OrdinaryScan == failures = 0 /\ natts <= ncols

TupleOf(r) == Done("iterate", "tuple", r)

EndOfData == Done("iterate", "EndOfData", 0)

CallsOf(name) == {i \in 1..Len(trace) : trace[i].call = name}

CallsBy(k) == {i \in 1..Len(trace) : trace[i].by = k}

\* C1: on a table of nrows rows, for every nrows >= 0, the i-th iterate
\* call after begin returns the tuple of row i for i = 1..nrows, and call
\* nrows + 1 returns the cleared slot: each row once, in the engine's
\* order, none skipped.  (Scans the engine fails in, and relations wider
\* than the table, are the subject of other properties.)
C1_EachRowOnceThenEndOfData ==
    (pc = "running" /\ OrdinaryScan /\ NeverEnded) =>
        /\ \A i \in 1..Len(Iterates) :
              /\ i <= nrows => Iterates[i] = TupleOf(i)
              /\ i = nrows + 1 => Iterates[i] = EndOfData
        /\ (hist # <<>> /\ hist[Len(hist)].res = "tuple") =>
              /\ slot.kind = "tuple"
              /\ slot.src = hist[Len(hist)].row
              /\ \A c \in 1..natts :
                    slot.values[c] = Ptr(Cell(slot.src, c))
        /\ (hist # <<>> /\ hist[Len(hist)] = EndOfData) => slot = EmptySlot

C1_Witness ==
    /\ pc = "running"
    /\ OrdinaryScan
    /\ nrows = 2
    /\ hist = <<TupleOf(1), TupleOf(2), EndOfData>>
    /\ slot = EmptySlot

\* C2: once an iterate call has returned the cleared slot, every later
\* iterate call of the scan with no rescan (and no end) in between returns
\* the cleared slot again: no row is produced after the end of the data.
C2_EndOfDataIsFinal ==
    OrdinaryScan =>
        \A i, j \in 1..Len(hist) :
            (/\ i < j
             /\ hist[i] = EndOfData
             /\ \A m \in i..j : hist[m].op = "iterate")
            => hist[j] = EndOfData

\* C3: on a table with at least one row, after an iterate call has
\* returned the cleared slot, a rescan followed by an iterate returns the
\* cleared slot at once: the rows are not replayed.
C3_NoReplayAfterRescan ==
    (OrdinaryScan /\ nrows >= 1) =>
        \A i \in 1..(Len(hist) - 2) :
            (/\ hist[i] = EndOfData
             /\ hist[i + 1].op = "rescan"
             /\ hist[i + 2].op = "iterate")
            => hist[i + 2] = EndOfData

AllReleased == Ptr([conn |-> NULL, result |-> NULL, query |-> NULL])

\* C4: an end call that follows an end call directly ends without error,
\* makes no call to the engine or the allocator, and leaves all three
\* fields of the state unset, as the first one left them; and in a whole
\* scan sqlite3_finalize, sqlite3_close and pfree are called at most once
\* each.
C4_EndIsIdempotent ==
    /\ \A i \in 1..(Len(hist) - 1) :
          (hist[i].op = "end" /\ hist[i + 1].op = "end") =>
              /\ CallsBy(i + 1) = {}
              /\ hist[i + 1].res = "ok"
    /\ (hist # <<>> /\ hist[Len(hist)].op = "end") =>
          /\ festate = AllReleased
          /\ err = NoError
          /\ db = "closed"
          /\ stmt.state \in {"none", "finalized"}
    /\ \A name \in {"sqlite3_finalize", "sqlite3_close", "pfree"} :
          Cardinality(CallsOf(name)) <= 1

C4_Witness ==
    /\ Len(hist) = 3
    /\ hist[1] = TupleOf(1)
    /\ hist[2].op = "end"
    /\ hist[3].op = "end"
    /\ CallsOf("sqlite3_finalize") # {}
    /\ CallsBy(3) = {}
    /\ festate = AllReleased

\* C5: when sqlite3_open fails, begin ends with the error that the
\* database cannot be opened, naming the path and the engine's message,
\* and has called sqlite3_close on the failed connection before it ends.
C5_OpenFailureClosesHandle ==
    (pc = "error" /\ db \in {"openfailed", "closed"} /\ hist = <<>>) =>
        /\ err.sqlerrcode = "ERRCODE_FDW_OUT_OF_MEMORY"
        /\ \E i \in 1..Len(trace) : trace[i] = Call("sqlite3_close", 0)

\* The two handles of the scan state; none before begin has made it.
HandleConn == IF festate = NULL THEN NULL ELSE Deref(festate).conn

HandleCursor == IF festate = NULL THEN NULL ELSE Deref(festate).result

CursorLive == stmt.state \in {"ready", "run", "halt"}

LastCall == hist[Len(hist)]

\* C13: sqlite3_close is called only by an end callback and never while
\* the statement is live: where a statement was prepared, the same end
\* callback has called sqlite3_finalize before it; neither the open
\* failure nor the prepare failure path calls sqlite3_close.  Each handle
\* of the state goes from set to unset only in an end callback, and once
\* an end callback has run both stay unset.
C13_CloseOrder ==
    /\ \A c \in CallsOf("sqlite3_close") :
          /\ trace[c].by \in 1..Len(hist)
          /\ hist[trace[c].by].op = "end"
          /\ stmt.state # "none" =>
                \E f \in CallsOf("sqlite3_finalize") :
                    f < c /\ trace[f].by = trace[c].by
    /\ db = "closed" => ~CursorLive
    /\ ~NeverEnded => (HandleConn = NULL /\ HandleCursor = NULL)

C13_UnsetOnlyAtEnd ==
    ((HandleConn # NULL /\ HandleConn' = NULL)
       \/ (HandleCursor # NULL /\ HandleCursor' = NULL))
    => /\ hist' = Append(hist, Done("end", "ok", 0))
       /\ HandleConn' = NULL
       /\ HandleCursor' = NULL

C13_FinalizeBeforeClose == []C13_CloseOrder /\ [][C13_UnsetOnlyAtEnd]_vars

C13_Witness ==
    /\ Len(hist) = 2
    /\ hist[1] = TupleOf(1)
    /\ hist[2].op = "end"
    /\ \E f \in CallsOf("sqlite3_finalize"), c \in CallsOf("sqlite3_close") :
          f < c /\ trace[f].by = 2 /\ trace[c].by = 2
    /\ db = "closed"
    /\ stmt.state = "finalized"

PrepareFailed == hist # <<>> /\ LastCall = Done("iterate", "error", 0)

EngineMessages == {"no such table", "out of memory"}

\* C14: an iterate call in which sqlite3_prepare fails ends with the
\* error ERRCODE_FDW_UNABLE_TO_CREATE_EXECUTION whose message carries the
\* engine's message, and does not call sqlite3_close; in a scan no end
\* callback has run in, the connection is open after it and the state
\* still holds it.
C14_PrepareFailureLeavesConnOpen ==
    PrepareFailed =>
        /\ pc = "error"
        /\ err.elevel = "ERROR"
        /\ err.sqlerrcode = "ERRCODE_FDW_UNABLE_TO_CREATE_EXECUTION"
        /\ \E m \in EngineMessages :
              err.message = "SQL error during prepare: " \o m
        /\ \A c \in CallsOf("sqlite3_close") : trace[c].by # Len(hist)
        /\ NeverEnded =>
              /\ db = "open"
              /\ HandleConn = Ptr("db")
              /\ CallsOf("sqlite3_close") = {}

C14_Witness ==
    /\ hist = <<Done("iterate", "error", 0)>>
    /\ db = "open"
    /\ HandleConn = Ptr("db")
    /\ err.message = "SQL error during prepare: no such table"

\* C15, as stated: after a prepare failure the same iterate call goes on
\* to call sqlite3_step on the statement that was not made.
C15_PrepareFailureKeepsGoing ==
    PrepareFailed =>
        \E c \in CallsOf("sqlite3_step") : trace[c].by = Len(hist)

\* C15, amended: the prepare failure ends the iterate call and the scan:
\* the call's only engine call is the sqlite3_prepare that failed, it
\* calls no sqlite3_step, the statement field stays unset, no slot is
\* returned, and no callback of the scan runs after it.
C15_PrepareFailureAborts ==
    /\ PrepareFailed =>
          /\ \A c \in CallsBy(Len(hist)) : trace[c].call = "sqlite3_prepare"
          /\ Cardinality(CallsBy(Len(hist))) = 1
          /\ HandleCursor = NULL
          /\ ~CursorLive
          /\ pc = "error"
    /\ \A i \in 1..(Len(hist) - 1) : hist[i].res # "error"

C15_Witness ==
    /\ hist = <<Done("rescan", "ok", 0), Done("iterate", "error", 0)>>
    /\ pc = "error"
    /\ CallsOf("sqlite3_step") = {}
    /\ trace[Len(trace)] = Call("sqlite3_prepare", 2)

StepMadeBy(k) == \E c \in CallsOf("sqlite3_step") : trace[c].by = k

\* C16: when the sqlite3_step an iterate call makes returns a code that
\* is neither SQLITE_ROW nor SQLITE_DONE, the call ends with an error
\* that ends the scan: it returns neither the cleared slot nor a tuple.
C16_StepFailureIsError ==
    (/\ hist # <<>>
     /\ LastCall.op = "iterate"
     /\ StepMadeBy(Len(hist))
     /\ stmt.rc \notin {"SQLITE_ROW", "SQLITE_DONE"})
    => /\ LastCall.res = "error"
       /\ pc = "error"

Opts == simpleGetOptions(f_table_options, f_server_options)

FirstIterate ==
    CHOOSE i \in 1..Len(hist) :
        IsIterate(hist[i]) /\ \A j \in 1..(i - 1) : ~IsIterate(hist[j])

\* C17: in a scan begin has started and no end callback has run in,
\* whatever iterate and rescan calls were made: sqlite3_open was called
\* once, by begin; sqlite3_prepare was called at most once, by the first
\* iterate call; a rescan call made no engine call; the state holds the
\* connection begin opened and the query text begin built, and the
\* statement, once prepared, is the one the state holds.
C17_ScanState ==
    (pc = "running" /\ NeverEnded) =>
        /\ Cardinality(CallsOf("sqlite3_open")) = 1
        /\ \A c \in CallsOf("sqlite3_open") : trace[c].by = 0
        /\ Cardinality(CallsOf("sqlite3_prepare")) <= 1
        /\ \A c \in CallsOf("sqlite3_prepare") :
              Iterates # <<>> /\ trace[c].by = FirstIterate
        /\ \A i \in 1..Len(hist) : hist[i].op = "rescan" => CallsBy(i) = {}
        /\ HandleConn = Ptr("db")
        /\ Deref(festate).query = Ptr("SELECT * FROM " \o Deref(Opts.table))
        /\ HandleCursor = (IF Iterates = <<>> THEN NULL ELSE Ptr("stmt"))
        /\ db = "open"

C17_RescanKeepsHandles ==
    (hist' = Append(hist, Done("rescan", "ok", 0)))
    => UNCHANGED <<festate, db, stmt, trace>>

C17_HandlesMadeOnce == []C17_ScanState /\ [][C17_RescanKeepsHandles]_vars

C17_Witness ==
    /\ Len(hist) = 4
    /\ hist[1].op = "rescan"
    /\ hist[2] = TupleOf(1)
    /\ hist[3].op = "rescan"
    /\ hist[4].op = "iterate"
    /\ Cardinality(CallsOf("sqlite3_prepare")) = 1
    /\ Cardinality(CallsOf("sqlite3_open")) = 1
    /\ pc = "running"

\* C18: a tuple iterate returns has as many values as the row has columns
\* in the engine, its i-th value is the text of the row's i-th column,
\* and making it reads nothing beyond those columns, however many
\* attributes the relation declares.
C18_TupleIsTheRow ==
    /\ slot.kind = "tuple" =>
          /\ Len(slot.values) = ncols
          /\ \A i \in 1..Len(slot.values) :
                slot.values[i] = Ptr(Cell(slot.src, i))
    /\ \A i \in 1..Len(hist) : hist[i].res # "crash"

BeginPastResolve == CallsOf("sqlite3_open") # {}

\* C19: when begin goes on after simpleGetOptions has returned, the
\* database path it gives sqlite3_open and the table name it gives strlen
\* and snprintf are both set: begin reads through no unset pointer.
C19_BeginUsesSetOptions ==
    BeginPastResolve =>
        /\ Opts.database # NULL
        /\ Opts.table # NULL
        /\ ~(pc = "crashed" /\ hist = <<>>)

FirstEnd ==
    CHOOSE i \in 1..Len(hist) :
        hist[i].op = "end" /\ \A j \in 1..(i - 1) : hist[j].op # "end"

\* C20: once an end callback has run, all three fields of the state are
\* unset and stay so; no later callback calls sqlite3_step,
\* sqlite3_finalize, sqlite3_close or pfree; the only engine call a later
\* callback makes is the sqlite3_prepare of an iterate call, which finds
\* the statement and the connection unset and fails.
C20_NoUseAfterRelease ==
    ~NeverEnded =>
        /\ festate = AllReleased
        /\ \A c \in 1..Len(trace) :
              trace[c].by > FirstEnd =>
                  /\ trace[c].call = "sqlite3_prepare"
                  /\ hist[trace[c].by] = Done("iterate", "error", 0)
        /\ \A i \in (FirstEnd + 1)..Len(hist) :
              /\ hist[i].res \notin {"tuple", "EndOfData", "crash"}
              /\ hist[i].op = "iterate" =>
                    err.message = "SQL error during prepare: out of memory"

C20_Witness ==
    /\ Len(hist) = 4
    /\ hist[1] = TupleOf(1)
    /\ hist[2].op = "end"
    /\ hist[3].op = "rescan"
    /\ hist[4] = Done("iterate", "error", 0)
    /\ trace[Len(trace)] = Call("sqlite3_prepare", 4)
    /\ festate = AllReleased

(***************************************************************************)
(* Properties of the query text, under QuerySpec.                          *)
(***************************************************************************)
TableOption == f_table_options[1].arg

\* C11: for every table name, of any length and with any characters, the
\* query text begin stores is the 14 characters "SELECT * FROM " followed
\* by the name as given: nothing quoted, nothing escaped, nothing cut.
C11_QueryIsSelectStarFromName ==
    pc = "running" =>
        /\ Deref(festate).query = Ptr("SELECT * FROM " \o TableOption)
        /\ Len(Deref(Deref(festate).query)) = 14 + Len(TableOption)
        /\ SubSeq(Deref(Deref(festate).query), 15,
                  14 + Len(TableOption)) = TableOption

C11_Witness ==
    /\ pc = "running"
    /\ Len(TableOption) = MaxNameLen
    /\ Deref(festate).query = Ptr("SELECT * FROM " \o TableOption)
    /\ \E i \in 1..Len(TableOption) :
          SubSeq(TableOption, i, i) = "\""

(***************************************************************************)
(* Properties of the planner callbacks, under PlannerSpec.                 *)
(***************************************************************************)
Sized == baserel.fdw_private # NULL

\* C12: whatever the table and the options, simpleGetForeignRelSize leaves
\* a row estimate of 0, and the path simpleGetForeignPaths adds after it
\* has rows 0, startup cost 0 and total cost 0 (startup cost plus rows).
C12_EstimatesAreZero ==
    /\ Sized => baserel.rows = 0
    /\ \A i \in 1..Len(baserel.pathlist) :
          /\ baserel.pathlist[i].rows = 0
          /\ baserel.pathlist[i].startup_cost = 0
          /\ baserel.pathlist[i].total_cost
               = baserel.pathlist[i].startup_cost + baserel.rows
          /\ baserel.pathlist[i].total_cost = 0

C12_Witness ==
    /\ Sized
    /\ Len(baserel.pathlist) = 1
    /\ baserel.pathlist[1].total_cost = 0
    /\ foreigntableid = MaxTableOid
    /\ f_table_options = <<>>

(***************************************************************************)
(* Properties of simpleGetOptions, under ResolveSpec.                      *)
(***************************************************************************)
Resolved == r_result # NULL

R == Deref(r_result)

Names(l) == {l[i].defname : i \in 1..Len(l)}

Given(name) == name \in Names(f_server_options) \cup Names(f_table_options)

\* The value the one entry called name holds in l.
ValueIn(l, name) == l[CHOOSE i \in 1..Len(l) : l[i].defname = name].arg

MissingRequired ==
    ErrorData("ERRCODE_SYNTAX_ERROR",
              "a database and a table must be specified", "")

\* C6: simpleGetOptions fails, with the error that a database and a table
\* must be specified, exactly when neither "database" nor "table" is among
\* the server's and the table's options; with only one of the two given it
\* returns without error.
C6_FailsIffBothUnset ==
    Resolved =>
        /\ (R.err = MissingRequired)
              <=> (~Given("database") /\ ~Given("table"))
        /\ (R.err = NoError) <=> (Given("database") \/ Given("table"))
        /\ (R.database = NULL) <=> ~Given("database")
        /\ (R.table = NULL) <=> ~Given("table")

C6_Witness ==
    /\ Resolved
    /\ Given("database")
    /\ ~Given("table")
    /\ R.err = NoError
    /\ R.table = NULL

SetAndNonEmpty(p) == p # NULL /\ Deref(p) # ""

\* C7: simpleGetOptions returns without error only with both the database
\* and the table set and non-empty, and fails whenever either one is
\* missing or empty.
C7_BothNonEmptyOrFails ==
    Resolved =>
        ((R.err = NoError)
           <=> (SetAndNonEmpty(R.database) /\ SetAndNonEmpty(R.table)))

Repeated(name) ==
    name \in Names(f_server_options) /\ name \in Names(f_table_options)

\* C8 as stated: the options are merged server first, and a "database" or
\* "table" that occurs twice in the merged list makes simpleGetOptions
\* fail.
C8_RepeatedKeyFails ==
    Resolved =>
        ((Repeated("database") \/ Repeated("table")) => R.err.elevel = "ERROR")

\* The value simpleGetOptions holds for name after a merge that puts the
\* table's options first: the server's where the server gives one.
LastGiven(name) ==
    IF name \in Names(f_server_options)
    THEN Ptr(ValueIn(f_server_options, name))
    ELSE IF name \in Names(f_table_options)
    THEN Ptr(ValueIn(f_table_options, name))
    ELSE NULL

\* C8 as the code has it: the options are merged table first, then server;
\* a "database" or "table" given by both is no error, and the value kept is
\* the one of the last occurrence in the merged list, the server's.
C8_LastOccurrenceWins ==
    Resolved =>
        /\ R.database = LastGiven("database")
        /\ R.table = LastGiven("table")
        /\ (Repeated("database") \/ Repeated("table")) => R.err = NoError

C8_Witness ==
    /\ Resolved
    /\ Repeated("database")
    /\ ValueIn(f_server_options, "database")
         # ValueIn(f_table_options, "database")
    /\ R.database = Ptr(ValueIn(f_server_options, "database"))
    /\ R.err = NoError

(***************************************************************************)
(* Properties of simple_fdw_validator, under ValidatorSpec.                *)
(***************************************************************************)
Validated == v_result # NULL

V == Deref(v_result)

Whitelist ==
    {<<"database", ForeignServerRelationId>>,
     <<"table", ForeignTableRelationId>>}

InvalidAt(i) == <<v_options[i].defname, v_catalog>> \notin Whitelist

HasInvalid == \E i \in 1..Len(v_options) : InvalidAt(i)

FirstInvalid ==
    CHOOSE i \in 1..Len(v_options) :
        InvalidAt(i) /\ \A j \in 1..(i - 1) : ~InvalidAt(j)

\* Entry k repeats the recognized key of an earlier entry.
RepeatAt(k) ==
    /\ v_options[k].defname \in {"database", "table"}
    /\ \E j \in 1..(k - 1) : v_options[j].defname = v_options[k].defname

HasRepeat == \E k \in 1..Len(v_options) : RepeatAt(k)

FirstRepeat ==
    CHOOSE k \in 1..Len(v_options) :
        RepeatAt(k) /\ \A j \in 1..(k - 1) : ~RepeatAt(j)

ExpectedHint ==
    "Valid options in this context are: " \o
        (CASE v_catalog = ForeignServerRelationId -> "database"
           [] v_catalog = ForeignTableRelationId -> "table"
           [] OTHER -> "<none>")

UnknownOption(def) ==
    [elevel |-> "ERROR", sqlerrcode |-> "ERRCODE_FDW_INVALID_OPTION_NAME",
     message |-> "invalid option \"" \o def.defname \o "\"",
     hint |-> ExpectedHint]

DuplicateOption(def) ==
    [elevel |-> "ERROR", sqlerrcode |-> "ERRCODE_SYNTAX_ERROR",
     message |-> "redundant options: " \o def.defname
                    \o " (" \o def.arg \o ")",
     hint |-> ""]

\* C9 as stated: a list holding an entry that is not valid for the catalog
\* is refused as an unknown option, naming such an entry, with the hint
\* listing the catalog's valid names.
C9_InvalidEntryIsUnknownOption ==
    (Validated /\ HasInvalid) =>
        \E i \in 1..Len(v_options) :
            InvalidAt(i) /\ V = UnknownOption(v_options[i])

\* C9 as the code has it: a list holding an entry that is not valid for
\* the catalog is always refused; as an unknown option naming the first
\* such entry, with the hint listing the catalog's valid names in
\* valid_options order ("<none>" without any), unless a recognized key is
\* repeated before that entry, and then as a redundant option.
C9_FirstInvalidUnlessRepeatBefore ==
    (Validated /\ HasInvalid) =>
        IF HasRepeat /\ FirstRepeat < FirstInvalid
        THEN V = DuplicateOption(v_options[FirstRepeat])
        ELSE V = UnknownOption(v_options[FirstInvalid])

C9_Witness ==
    /\ Validated
    /\ HasInvalid
    /\ Len(v_options) >= 2
    /\ FirstInvalid = 2
    /\ V = UnknownOption(v_options[2])
    /\ v_catalog = ForeignTableRelationId

\* C10 as stated: a list holding the same recognized key twice is refused
\* as a redundant option naming that key with the repeated entry's value,
\* in any catalog and with any entries around.
C10_RepeatIsDuplicateOption ==
    (Validated /\ HasRepeat) =>
        \E k \in 1..Len(v_options) :
            RepeatAt(k) /\ V = DuplicateOption(v_options[k])

\* C10 as the code has it: a list holding the same recognized key twice is
\* always refused; as a redundant option naming the key with the value of
\* its second occurrence when every entry up to that occurrence is valid
\* for the catalog, and otherwise as an unknown option naming the first
\* entry that is not.
C10_FirstRepeatUnlessInvalidBefore ==
    (Validated /\ HasRepeat) =>
        IF HasInvalid /\ FirstInvalid < FirstRepeat
        THEN V = UnknownOption(v_options[FirstInvalid])
        ELSE V = DuplicateOption(v_options[FirstRepeat])

C10_Witness ==
    /\ Validated
    /\ HasRepeat
    /\ v_options[1].arg # v_options[FirstRepeat].arg
    /\ V = DuplicateOption(v_options[FirstRepeat])

=============================================================================
